---- MODULE Spec2Model ----
(***************************************************************************)
(* Model of asyncio_xmpp/stanza.py: the delivery-tracking state machine    *)
(* (QueueState, StanzaToken) and the stanza data model (Message,           *)
(* Presence, IQ, Error) over an element tree.                              *)
(*                                                                         *)
(* The specifications of the module:                                       *)
(*   Spec           the StanzaToken state machine driven by its client     *)
(*   SpecStanza     make_reply / validate applied to bounded stanza inputs *)
(*   SpecError      Error.condition and Error.validate                     *)
(*   SpecErrorText  the Error.text accessor                                *)
(*   SpecProxy      ChildrenSetProxy and TransformedChildrenSetProxy       *)
(*   SpecPresence   assignments to Presence.type                           *)
(***************************************************************************)
EXTENDS Integers, Sequences, FiniteSets, TLC

\* ------------------------------------------------------------------ bounds
NumTokens == 2
MaxChildren == 2

VARIABLES
    tokens,          \* token id -> [state, abort_impl, resend_impl] (StanzaToken fields)
    active_queue,    \* the client's active queue: token ids waiting for hand-off
    unacked_queue,   \* the client's unacked queue: handed off, awaiting <a/>
    call,            \* the last call on a token: [op, tok, pre, raised]
    stanza,          \* the stanza object an operation is applied to
    result           \* outcome of the last stanza operation: [op, arg, raised, ret]

token_vars == <<tokens, active_queue, unacked_queue, call>>
stanza_vars == <<stanza, result>>
vars == <<tokens, active_queue, unacked_queue, call, stanza, result>>

None == "None"

\* ------------------------------------------------------------ sequences
RECURSIVE SeqRemove(_, _)
\* list.remove(x): drop the first occurrence of x
SeqRemove(s, x) ==
    IF s = <<>> THEN <<>>
    ELSE IF Head(s) = x THEN Tail(s)
    ELSE <<Head(s)>> \o SeqRemove(Tail(s), x)

SeqRange(s) == {s[i] : i \in 1..Len(s)}

\* =================================================================
\* QueueState
\* =================================================================
ACTIVE == 0
UNACKED == 1
SENT_WITHOUT_ACK == 2
ABORTED == 3
ACKED == 4

QueueState == {ACTIVE, UNACKED, SENT_WITHOUT_ACK, ABORTED, ACKED}

\* =================================================================
\* StanzaToken
\* =================================================================
Impls == {None, "client"}

\* hasattr(impl, "__call__")
is_callable(impl) == impl # None

StanzaToken_init_unacked(abort_impl, resend_impl) ==
    [state |-> UNACKED, abort_impl |-> abort_impl, resend_impl |-> resend_impl]

StanzaToken_init(abort_impl, resend_impl) ==
    [state |-> ACTIVE, abort_impl |-> abort_impl, resend_impl |-> resend_impl]

NoCall == [op |-> "none", tok |-> 0, pre |-> ACTIVE, raised |-> None]

\* The client's abort implementation: what it returns and what it does to
\* the queues.
Client_abort_impl(t) ==
    IF tokens[t].state = ACTIVE
    THEN [ret |-> ABORTED,
          active |-> SeqRemove(active_queue, t),
          unacked |-> unacked_queue]
    ELSE IF tokens[t].state = UNACKED
    THEN [ret |-> ABORTED,
          active |-> active_queue,
          unacked |-> SeqRemove(unacked_queue, t)]
    ELSE [ret |-> tokens[t].state,
          active |-> active_queue,
          unacked |-> unacked_queue]

\* The client's resend implementation.
Client_resend_impl(t) ==
    IF tokens[t].state \in {SENT_WITHOUT_ACK, ABORTED}
    THEN [ret |-> ACTIVE,
          active |-> Append(active_queue, t),
          unacked |-> unacked_queue]
    ELSE [ret |-> tokens[t].state,
          active |-> active_queue,
          unacked |-> unacked_queue]

\* faulty variant: the return value of the implementation is dropped
abort_drops_result(t) ==
    /\ t \in DOMAIN tokens
    /\ IF ~is_callable(tokens[t].abort_impl)
       THEN /\ call' = [op |-> "abort", tok |-> t, pre |-> tokens[t].state,
                        raised |-> "NotImplementedError"]
            /\ UNCHANGED <<tokens, active_queue, unacked_queue>>
       ELSE LET r == Client_abort_impl(t) IN
            /\ tokens' = tokens
            /\ active_queue' = r.active
            /\ unacked_queue' = r.unacked
            /\ call' = [op |-> "abort", tok |-> t, pre |-> tokens[t].state,
                        raised |-> None]
    /\ UNCHANGED stanza_vars

\* faulty variant: the state is set to ABORTED whatever the implementation returns
abort_always_aborted(t) ==
    /\ t \in DOMAIN tokens
    /\ IF ~is_callable(tokens[t].abort_impl)
       THEN /\ call' = [op |-> "abort", tok |-> t, pre |-> tokens[t].state,
                        raised |-> "NotImplementedError"]
            /\ UNCHANGED <<tokens, active_queue, unacked_queue>>
       ELSE LET r == Client_abort_impl(t) IN
            /\ tokens' = [tokens EXCEPT ![t].state = ABORTED]
            /\ active_queue' = r.active
            /\ unacked_queue' = r.unacked
            /\ call' = [op |-> "abort", tok |-> t, pre |-> tokens[t].state,
                        raised |-> None]
    /\ UNCHANGED stanza_vars

\* faulty variant: the state is assigned before the capability is tested
abort_assigns_before_check(t) ==
    /\ t \in DOMAIN tokens
    /\ IF ~is_callable(tokens[t].abort_impl)
       THEN /\ call' = [op |-> "abort", tok |-> t, pre |-> tokens[t].state,
                        raised |-> "NotImplementedError"]
            /\ tokens' = [tokens EXCEPT ![t].state = ABORTED]
            /\ UNCHANGED <<active_queue, unacked_queue>>
       ELSE LET r == Client_abort_impl(t) IN
            /\ tokens' = [tokens EXCEPT ![t].state = r.ret]
            /\ active_queue' = r.active
            /\ unacked_queue' = r.unacked
            /\ call' = [op |-> "abort", tok |-> t, pre |-> tokens[t].state,
                        raised |-> None]
    /\ UNCHANGED stanza_vars

\* StanzaToken.abort
abort(t) ==
    /\ t \in DOMAIN tokens
    /\ IF ~is_callable(tokens[t].abort_impl)
       THEN /\ call' = [op |-> "abort", tok |-> t, pre |-> tokens[t].state,
                        raised |-> "NotImplementedError"]
            /\ UNCHANGED <<tokens, active_queue, unacked_queue>>
       ELSE LET r == Client_abort_impl(t) IN
            /\ tokens' = [tokens EXCEPT ![t].state = r.ret]
            /\ active_queue' = r.active
            /\ unacked_queue' = r.unacked
            /\ call' = [op |-> "abort", tok |-> t, pre |-> tokens[t].state,
                        raised |-> None]
    /\ UNCHANGED stanza_vars

\* faulty variant: the return value of the implementation is dropped
resend_drops_result(t) ==
    /\ t \in DOMAIN tokens
    /\ IF ~is_callable(tokens[t].resend_impl)
       THEN /\ call' = [op |-> "resend", tok |-> t, pre |-> tokens[t].state,
                        raised |-> "NotImplementedError"]
            /\ UNCHANGED <<tokens, active_queue, unacked_queue>>
       ELSE LET r == Client_resend_impl(t) IN
            /\ tokens' = tokens
            /\ active_queue' = r.active
            /\ unacked_queue' = r.unacked
            /\ call' = [op |-> "resend", tok |-> t, pre |-> tokens[t].state,
                        raised |-> None]
    /\ UNCHANGED stanza_vars

\* StanzaToken.resend
resend(t) ==
    /\ t \in DOMAIN tokens
    /\ IF ~is_callable(tokens[t].resend_impl)
       THEN /\ call' = [op |-> "resend", tok |-> t, pre |-> tokens[t].state,
                        raised |-> "NotImplementedError"]
            /\ UNCHANGED <<tokens, active_queue, unacked_queue>>
       ELSE LET r == Client_resend_impl(t) IN
            /\ tokens' = [tokens EXCEPT ![t].state = r.ret]
            /\ active_queue' = r.active
            /\ unacked_queue' = r.unacked
            /\ call' = [op |-> "resend", tok |-> t, pre |-> tokens[t].state,
                        raised |-> None]
    /\ UNCHANGED stanza_vars

\* The client submits a stanza: a new token, placed in the active queue.
Client_enqueue(abort_impl, resend_impl) ==
    /\ Cardinality(DOMAIN tokens) < NumTokens
    /\ LET t == Cardinality(DOMAIN tokens) + 1 IN
       /\ tokens' = [u \in DOMAIN tokens \cup {t} |->
                        IF u = t THEN StanzaToken_init(abort_impl, resend_impl)
                        ELSE tokens[u]]
       /\ active_queue' = Append(active_queue, t)
       /\ call' = [op |-> "new", tok |-> t, pre |-> ACTIVE, raised |-> None]
    /\ UNCHANGED unacked_queue
    /\ UNCHANGED stanza_vars

\* The transport accepts the head of the active queue; sm: stream
\* management tracking is in effect.
Client_hand_off(sm) ==
    /\ active_queue # <<>>
    /\ LET t == Head(active_queue) IN
       /\ active_queue' = Tail(active_queue)
       /\ IF sm
          THEN /\ tokens' = [tokens EXCEPT ![t].state = UNACKED]
               /\ unacked_queue' = Append(unacked_queue, t)
          ELSE /\ tokens' = [tokens EXCEPT ![t].state = SENT_WITHOUT_ACK]
               /\ unacked_queue' = unacked_queue
       /\ call' = [op |-> "sent", tok |-> t, pre |-> tokens[t].state,
                   raised |-> None]
    /\ UNCHANGED stanza_vars

\* The peer's acknowledgement count reaches the head of the unacked queue.
Client_ack ==
    /\ unacked_queue # <<>>
    /\ LET t == Head(unacked_queue) IN
       /\ unacked_queue' = Tail(unacked_queue)
       /\ tokens' = [tokens EXCEPT ![t].state = ACKED]
       /\ call' = [op |-> "ack", tok |-> t, pre |-> tokens[t].state,
                   raised |-> None]
    /\ UNCHANGED active_queue
    /\ UNCHANGED stanza_vars

\* The session is interrupted and resumption fails: every unacked stanza
\* becomes sent-without-ack.
Client_resumption_failed ==
    /\ unacked_queue # <<>>
    /\ tokens' = [u \in DOMAIN tokens |->
                    IF u \in SeqRange(unacked_queue)
                    THEN [tokens[u] EXCEPT !.state = SENT_WITHOUT_ACK]
                    ELSE tokens[u]]
    /\ unacked_queue' = <<>>
    /\ call' = [op |-> "lost", tok |-> Head(unacked_queue),
                pre |-> UNACKED, raised |-> None]
    /\ UNCHANGED active_queue
    /\ UNCHANGED stanza_vars

NoStanza == [kind |-> None]
NoResult == [op |-> "none", arg |-> {}, raised |-> None, ret |-> {}]

Init ==
    /\ tokens = <<>>
    /\ active_queue = <<>>
    /\ unacked_queue = <<>>
    /\ call = NoCall
    /\ stanza = NoStanza
    /\ result = NoResult

Next ==
    \/ \E a \in Impls, r \in Impls : Client_enqueue(a, r)
    \/ \E sm \in BOOLEAN : Client_hand_off(sm)
    \/ Client_ack
    \/ Client_resumption_failed
    \/ \E t \in 1..NumTokens : abort(t)
    \/ \E t \in 1..NumTokens : resend(t)

Spec == Init /\ [][Next]_vars

\* =================================================================
\* Element tree: an element is [cls, nid, tag, attrib, children, text];
\* nid is the node's identity, tag is <<namespace, localname>>, attrib a
\* function from the keys that are set, an optional value is {} (None) or
\* {v}.
\* =================================================================
Some(v) == {v}
Nothing == {}
The(opt) == CHOOSE v \in opt : TRUE

ns_client == "jabber:client"
ns_stanzas == "urn:ietf:params:xml:ns:xmpp-stanzas"
ns_payload == "urn:example:payload"

\* split_tag(tag)[1]
split_tag_localname(tag) == tag[2]

MinOf(S) == CHOOSE x \in S : \A y \in S : x <= y
MaxOf(S) == CHOOSE x \in S : \A y \in S : x >= y

makeelement(cls, nid, tag) ==
    [cls |-> cls, nid |-> nid, tag |-> tag, attrib |-> <<>>,
     children |-> <<>>, text |-> None]

\* a node id no node of the tree under el carries
NewNid(el) ==
    1 + MaxOf({el.nid} \cup {el.children[i].nid : i \in 1..Len(el.children)}
              \cup UNION {{el.children[i].children[j].nid :
                              j \in 1..Len(el.children[i].children)} :
                          i \in 1..Len(el.children)})

\* element.get(key)
attr_get(el, key) ==
    IF key \in DOMAIN el.attrib THEN Some(el.attrib[key]) ELSE Nothing

\* element.set(key, value)
attr_set(el, key, v) ==
    [el EXCEPT !.attrib = [k \in DOMAIN el.attrib \cup {key} |->
                              IF k = key THEN v ELSE el.attrib[k]]]

\* del element.attrib[key], the KeyError swallowed
attr_del(el, key) ==
    [el EXCEPT !.attrib = [k \in DOMAIN el.attrib \ {key} |-> el.attrib[k]]]

\* element.append(node)
ElementAppend(el, node) == [el EXCEPT !.children = Append(el.children, node)]

\* element.insert(index, node), index counted from 0
ElementInsert(el, index, node) ==
    LET at == IF index > Len(el.children) THEN Len(el.children) ELSE index IN
    [el EXCEPT !.children = SubSeq(el.children, 1, at) \o <<node>>
                            \o SubSeq(el.children, at + 1, Len(el.children))]

\* node in element: node is a direct child, by identity
ElementContains(el, node) ==
    \E i \in 1..Len(el.children) : el.children[i].nid = node.nid

\* element.remove(node): by identity; ValueError when node is no child
ElementRemove(el, node) ==
    IF ~ElementContains(el, node)
    THEN [raised |-> "ValueError", el |-> el]
    ELSE LET i == MinOf({k \in 1..Len(el.children) :
                            el.children[k].nid = node.nid}) IN
         [raised |-> None,
          el |-> [el EXCEPT !.children =
                     SubSeq(el.children, 1, i - 1)
                     \o SubSeq(el.children, i + 1, Len(el.children))]]

\* element.find(tag): the first child with that tag, or None
ElementFind(el, tag) ==
    LET S == {i \in 1..Len(el.children) : el.children[i].tag = tag} IN
    IF S = {} THEN Nothing ELSE Some(el.children[MinOf(S)])

\* =================================================================
\* jid.JID: <<localpart, domain, resource>>; its string form is the
\* sequence of its parts with "@" and "/" between them.
\* =================================================================
JID_fromstr(s) ==
    LET has_local == Len(s) >= 3 /\ s[2] = "@"
        rest == IF has_local THEN SubSeq(s, 3, Len(s)) ELSE s
        has_resource == Len(rest) = 3 /\ rest[2] = "/"
    IN <<IF has_local THEN s[1] ELSE None,
         rest[1],
         IF has_resource THEN rest[3] ELSE None>>

JID_str(j) ==
    (IF j[1] # None THEN <<j[1], "@">> ELSE <<>>)
    \o <<j[2]>>
    \o (IF j[3] # None THEN <<"/", j[3]>> ELSE <<>>)

\* bool(x) of an optional JID: None is false, a tuple is true unless empty
Truthy(opt) == opt # Nothing /\ Len(The(opt)) > 0

\* a or b, for optional strings: None and "" are false
Or(a, b) == IF a # Nothing /\ a # Some("") THEN a ELSE b

\* =================================================================
\* xml_attribute, xml_jid_attribute, xml_enum_attribute
\* =================================================================
xml_attribute_get(instance, key) == attr_get(instance, key)

xml_attribute_delete(instance, key) == attr_del(instance, key)

xml_attribute_set(instance, key, value) ==
    IF value = Nothing THEN xml_attribute_delete(instance, key)
    ELSE attr_set(instance, key, The(value))

xml_jid_attribute_get(instance, key) ==
    LET value == xml_attribute_get(instance, key) IN
    IF value = Nothing THEN Nothing ELSE Some(JID_fromstr(The(value)))

xml_jid_attribute_set(instance, key, value) ==
    IF value = Nothing THEN xml_attribute_set(instance, key, value)
    ELSE xml_attribute_set(instance, key, Some(JID_str(The(value))))

\* faulty variant: the attribute is written before the value is tested
xml_enum_attribute_set_unchecked(instance, key, options, value) ==
    IF value = Nothing
    THEN [raised |-> None, el |-> xml_attribute_set(instance, key, value)]
    ELSE [raised |-> IF The(value) \notin options THEN "ValueError" ELSE None,
          el |-> xml_attribute_set(instance, key, value)]

\* returns [raised, el]
xml_enum_attribute_set(instance, key, options, value) ==
    IF value = Nothing
    THEN [raised |-> None, el |-> xml_attribute_set(instance, key, value)]
    ELSE IF The(value) \notin options
    THEN [raised |-> "ValueError", el |-> instance]
    ELSE [raised |-> None, el |-> xml_attribute_set(instance, key, value)]

\* Stanza.id, Stanza.from_, Stanza.to, .type
get_id(el) == xml_attribute_get(el, "id")
get_from(el) == xml_jid_attribute_get(el, "from")
get_to(el) == xml_jid_attribute_get(el, "to")
get_type(el) == xml_attribute_get(el, "type")

\* =================================================================
\* Error
\* =================================================================
Error_TAG == <<ns_client, "error">>
Error_TEXT_ELEMENT == <<ns_stanzas, "text">>

Error_VALID_CONDITIONS ==
    { "bad-request", "conflict", "feature-not-implemented", "forbidden",
      "gone", "internal-server-error", "item-not-found", "jid-malformed",
      "not-acceptable", "not-allowed", "not-authorized", "policy-violation",
      "recipient-unavailable", "redirect", "registration-required",
      "remote-server-not-found", "remote-server-timeout",
      "resource-constraint", "service-unavailable", "subscription-required",
      "undefined-condition", "unexpected-request" }

Error_VALID_CONDITION_ELEMENTS ==
    { <<ns_stanzas, condition>> : condition \in Error_VALID_CONDITIONS }

\* indices of the children _iter_condition_elements yields
Error_iter_condition_elements(self) ==
    { i \in 1..Len(self.children) :
        /\ self.children[i].tag[1] = ns_stanzas
        /\ self.children[i].tag \in Error_VALID_CONDITION_ELEMENTS }

\* Error.condition (getter)
Error_condition(self) ==
    LET S == Error_iter_condition_elements(self) IN
    IF S = {} THEN Nothing
    ELSE Some(split_tag_localname(self.children[MinOf(S)].tag))

\* faulty variant: the condition child is rewritten before the value is
\* tested against the vocabulary
Error_set_condition_unchecked(self, value) ==
    LET existing == Error_condition(self)
        written ==
            IF existing # Nothing
            THEN LET i == MinOf({k \in 1..Len(self.children) :
                                   self.children[k].tag = <<ns_stanzas, The(existing)>>})
                 IN [self EXCEPT !.children[i].tag = <<ns_stanzas, value>>]
            ELSE ElementInsert(self, 0,
                     makeelement("Element", self.nid + 1, <<ns_stanzas, value>>))
    IN [raised |-> IF value \notin Error_VALID_CONDITIONS THEN "ValueError" ELSE None,
        el |-> written]

\* Error.condition (setter): returns [raised, el]
Error_set_condition(self, value) ==
    LET existing == Error_condition(self) IN
    IF value \notin Error_VALID_CONDITIONS
    THEN [raised |-> "ValueError", el |-> self]
    ELSE IF existing = Some(value)
    THEN [raised |-> None, el |-> self]
    ELSE IF existing # Nothing
    THEN LET i == MinOf({k \in 1..Len(self.children) :
                           self.children[k].tag = <<ns_stanzas, The(existing)>>})
         IN [raised |-> None,
             el |-> [self EXCEPT !.children[i].tag = <<ns_stanzas, value>>]]
    ELSE [raised |-> None,
          el |-> ElementInsert(self, 0,
                     makeelement("Element", self.nid + 1, <<ns_stanzas, value>>))]

\* faulty variant: the constructor attaches no condition
Error_init_no_condition(nid) == makeelement("Error", nid, Error_TAG)

\* Error.__init__
Error_init(nid) ==
    Error_set_condition(makeelement("Error", nid, Error_TAG),
                        "undefined-condition").el

\* =================================================================
\* Message, Presence
\* =================================================================
Message_TAG == <<ns_client, "message">>
Presence_TAG == <<ns_client, "presence">>
Presence_VALID_TYPES ==
    {"unavailable", "subscribe", "subscribed", "unsubscribe", "unsubscribed"}

\* the append/remove pair that associates a new object with self's parser
Associate(self, obj) == ElementRemove(ElementAppend(self, obj), obj).el

\* faulty variant: the addresses are copied, not swapped
Message_make_reply_no_swap(self, type) ==
    LET obj0 == makeelement("Message", NewNid(self), Message_TAG)
        self1 == Associate(self, obj0)
        obj1 == IF Truthy(get_to(self1))
                THEN xml_jid_attribute_set(obj0, "to", get_to(self1))
                ELSE obj0
        obj2 == IF Truthy(get_from(self1))
                THEN xml_jid_attribute_set(obj1, "from", get_from(self1))
                ELSE obj1
        obj3 == xml_attribute_set(obj2, "id", get_id(self1))
        obj4 == xml_attribute_set(obj3, "type", Or(type, get_type(self1)))
    IN [raised |-> None, self |-> self1, ret |-> Some(obj4)]

\* Message.make_reply: returns [raised, self, ret]
Message_make_reply(self, type) ==
    LET obj0 == makeelement("Message", NewNid(self), Message_TAG)
        self1 == Associate(self, obj0)
        obj1 == IF Truthy(get_to(self1))
                THEN xml_jid_attribute_set(obj0, "from", get_to(self1))
                ELSE obj0
        obj2 == IF Truthy(get_from(self1))
                THEN xml_jid_attribute_set(obj1, "to", get_from(self1))
                ELSE obj1
        obj3 == xml_attribute_set(obj2, "id", get_id(self1))
        obj4 == xml_attribute_set(obj3, "type", Or(type, get_type(self1)))
    IN [raised |-> None, self |-> self1, ret |-> Some(obj4)]

\* Presence.make_reply: returns [raised, self, ret]
Presence_make_reply(self, type) ==
    LET obj0 == makeelement("Presence", NewNid(self), Presence_TAG)
        self1 == Associate(self, obj0)
        obj1 == IF Truthy(get_to(self1))
                THEN xml_jid_attribute_set(obj0, "from", get_to(self1))
                ELSE obj0
        obj2 == IF Truthy(get_from(self1))
                THEN xml_jid_attribute_set(obj1, "to", get_from(self1))
                ELSE obj1
        obj3 == xml_attribute_set(obj2, "id", get_id(self1))
        r == xml_enum_attribute_set(obj3, "type", Presence_VALID_TYPES,
                                    Or(type, get_type(self1)))
    IN IF r.raised # None
       THEN [raised |-> r.raised, self |-> self1, ret |-> Nothing]
       ELSE [raised |-> None, self |-> self1, ret |-> Some(r.el)]

\* =================================================================
\* IQ
\* =================================================================
IQ_TAG == <<ns_client, "iq">>
IQ_VALID_TYPES == {"set", "get", "error", "result"}

\* IQ.data (getter): the first child that is no error
IQ_data(self) ==
    LET S == {i \in 1..Len(self.children) : self.children[i].tag # Error_TAG} IN
    IF S = {} THEN Nothing ELSE Some(self.children[MinOf(S)])

\* IQ.error (getter)
IQ_error(self) == ElementFind(self, Error_TAG)

\* IQ.error (deleter)
IQ_del_error(self) ==
    LET error == IQ_error(self) IN
    IF error # Nothing THEN ElementRemove(self, The(error)).el ELSE self

\* IQ.error (setter): returns [raised, el]
IQ_set_error(self, value) ==
    IF get_type(self) # Some("error")
    THEN [raised |-> "ValueError", el |-> self]
    ELSE [raised |-> None, el |-> ElementAppend(IQ_del_error(self), value)]

\* IQ.validate: None, or the exception raised
IQ_validate(self) ==
    LET type == get_type(self) IN
    IF type = Nothing \/ The(type) \notin IQ_VALID_TYPES THEN "ValueError"
    ELSE IF The(type) \in {"set", "get"}
    THEN (IF IQ_data(self) = Nothing THEN "ValueError" ELSE None)
    ELSE IF The(type) = "result"
    THEN (IF Len(self.children) > 1 \/ IQ_error(self) # Nothing
          THEN "ValueError" ELSE None)
    ELSE IF The(type) = "error"
    THEN (IF IQ_error(self) = Nothing THEN "ValueError" ELSE None)
    ELSE None

\* faulty variant: a reply is built to every IQ with a valid type
IQ_make_reply_any_type(self, error) ==
    IF get_type(self) = Nothing \/ The(get_type(self)) \notin IQ_VALID_TYPES
    THEN [raised |-> "ValueError", self |-> self, ret |-> Nothing]
    ELSE
    LET obj0 == makeelement("IQ", NewNid(self), IQ_TAG)
        self1 == Associate(self, obj0)
        obj1 == xml_jid_attribute_set(obj0, "from", get_to(self1))
        obj2 == xml_jid_attribute_set(obj1, "to", get_from(self1))
        obj3 == xml_attribute_set(obj2, "id", get_id(self1))
        t == xml_enum_attribute_set(obj3, "type", IQ_VALID_TYPES,
                 Some(IF error THEN "error" ELSE "result"))
        e == IF error THEN IQ_set_error(t.el, Error_init(obj0.nid + 1))
             ELSE [raised |-> None, el |-> t.el]
    IN IF t.raised # None
       THEN [raised |-> t.raised, self |-> self1, ret |-> Nothing]
       ELSE IF e.raised # None
       THEN [raised |-> e.raised, self |-> self1, ret |-> Nothing]
       ELSE [raised |-> None, self |-> self1, ret |-> Some(e.el)]

\* IQ.make_reply: returns [raised, self, ret]
IQ_make_reply(self, error) ==
    IF get_type(self) = Nothing \/ The(get_type(self)) \notin {"set", "get"}
    THEN [raised |-> "ValueError", self |-> self, ret |-> Nothing]
    ELSE
    LET obj0 == makeelement("IQ", NewNid(self), IQ_TAG)
        self1 == Associate(self, obj0)
        obj1 == xml_jid_attribute_set(obj0, "from", get_to(self1))
        obj2 == xml_jid_attribute_set(obj1, "to", get_from(self1))
        obj3 == xml_attribute_set(obj2, "id", get_id(self1))
        t == xml_enum_attribute_set(obj3, "type", IQ_VALID_TYPES,
                 Some(IF error THEN "error" ELSE "result"))
        e == IF error THEN IQ_set_error(t.el, Error_init(obj0.nid + 1))
             ELSE [raised |-> None, el |-> t.el]
    IN IF t.raised # None
       THEN [raised |-> t.raised, self |-> self1, ret |-> Nothing]
       ELSE IF e.raised # None
       THEN [raised |-> e.raised, self |-> self1, ret |-> Nothing]
       ELSE [raised |-> None, self |-> self1, ret |-> Some(e.el)]

\* =================================================================
\* Specification SpecStanza: make_reply and validate applied to the
\* stanzas of a bounded input set
\* =================================================================
InputIds == {"x1"}
InputJIDs == { <<"a", "@", "x.example">>, <<"b", "@", "y.example", "/", "r">>,
               <<"z.example">> }
InputTypes == {"set", "get", "result", "error", "chat", "subscribe", "bogus"}
TypeArgs == {Nothing, Some(""), Some("unavailable"), Some("bogus")}
ChildKinds == {"error", "payload"}

\* the i-th child of an input stanza
InputChild(kind, i) ==
    IF kind = "error" THEN Error_init(2 * i - 1)
    ELSE makeelement("Element", 2 * i - 1, <<ns_payload, "query">>)

InputChildren ==
    UNION { { [i \in 1..n |-> InputChild(ks[i], i)] : ks \in [1..n -> ChildKinds] }
            : n \in 0..MaxChildren }

StanzaClasses ==
    { [cls |-> "Message", tag |-> Message_TAG],
      [cls |-> "Presence", tag |-> Presence_TAG],
      [cls |-> "IQ", tag |-> IQ_TAG] }

InputStanzas ==
    { [cls |-> c.cls, nid |-> 0, tag |-> c.tag,
       attrib |-> [k \in present |->
                      CASE k = "id" -> id
                        [] k = "from" -> from
                        [] k = "to" -> to
                        [] k = "type" -> type],
       children |-> ch, text |-> None] :
        c \in StanzaClasses, present \in SUBSET {"id", "from", "to", "type"},
        id \in InputIds, from \in InputJIDs, to \in InputJIDs,
        type \in InputTypes, ch \in InputChildren }

InitStanza ==
    /\ tokens = <<>>
    /\ active_queue = <<>>
    /\ unacked_queue = <<>>
    /\ call = NoCall
    /\ stanza \in InputStanzas
    /\ result = NoResult

DoMessageMakeReply(type) ==
    /\ stanza.cls = "Message"
    /\ LET r == Message_make_reply(stanza, type) IN
       /\ stanza' = r.self
       /\ result' = [op |-> "Message.make_reply", arg |-> type,
                     raised |-> r.raised, ret |-> r.ret]
    /\ UNCHANGED token_vars

DoPresenceMakeReply(type) ==
    /\ stanza.cls = "Presence"
    /\ LET r == Presence_make_reply(stanza, type) IN
       /\ stanza' = r.self
       /\ result' = [op |-> "Presence.make_reply", arg |-> type,
                     raised |-> r.raised, ret |-> r.ret]
    /\ UNCHANGED token_vars

DoIQMakeReply(error) ==
    /\ stanza.cls = "IQ"
    /\ LET r == IQ_make_reply(stanza, error) IN
       /\ stanza' = r.self
       /\ result' = [op |-> "IQ.make_reply", arg |-> Some(error),
                     raised |-> r.raised, ret |-> r.ret]
    /\ UNCHANGED token_vars

DoIQValidate ==
    /\ stanza.cls = "IQ"
    /\ result' = [op |-> "IQ.validate", arg |-> Nothing,
                  raised |-> IQ_validate(stanza), ret |-> Nothing]
    /\ UNCHANGED stanza
    /\ UNCHANGED token_vars

NextStanza ==
    \/ \E type \in TypeArgs : DoMessageMakeReply(type)
    \/ \E type \in TypeArgs : DoPresenceMakeReply(type)
    \/ \E error \in BOOLEAN : DoIQMakeReply(error)
    \/ DoIQValidate

SpecStanza == InitStanza /\ [][NextStanza]_vars

\* =================================================================
\* Properties of the StanzaToken state machine (specification Spec)
\* =================================================================

\* C1: resend() on a token with the resend capability moves it from
\* SentWithoutAck or Aborted back to Active, and leaves the state of an
\* Active or Unacked token as it was.
C1_ResendTransitions ==
    (call.op = "resend" /\ call.raised = None) =>
        /\ call.pre \in {SENT_WITHOUT_ACK, ABORTED} =>
               tokens[call.tok].state = ACTIVE
        /\ call.pre \in {ACTIVE, UNACKED} =>
               tokens[call.tok].state = call.pre

C1_Witness ==
    /\ call.op = "resend"
    /\ call.raised = None
    /\ call.pre = ABORTED
    /\ tokens[call.tok].state = ACTIVE
    /\ call.tok \in SeqRange(active_queue)

\* C2: abort() on an Active token moves it to Aborted and takes it out of
\* the active queue; an Aborted token is never found in the active queue.
C2_AbortActive ==
    /\ (call.op = "abort" /\ call.raised = None /\ call.pre = ACTIVE) =>
           /\ tokens[call.tok].state = ABORTED
           /\ call.tok \notin SeqRange(active_queue)
    /\ \A t \in DOMAIN tokens :
           tokens[t].state = ABORTED => t \notin SeqRange(active_queue)

C2_Witness ==
    /\ call.op = "abort"
    /\ call.raised = None
    /\ call.pre = ACTIVE
    /\ tokens[call.tok].state = ABORTED
    /\ active_queue # <<>>

\* C3: a token that is Acked stays Acked over every abort() and resend()
\* call.
C3_AckedIsFinal ==
    [][\A t \in DOMAIN tokens :
          (tokens[t].state = ACKED /\ call'.op \in {"abort", "resend"})
              => tokens'[t].state = ACKED]_vars

C3_Witness ==
    /\ call.op = "abort"
    /\ call.raised = None
    /\ call.pre = ACKED
    /\ tokens[call.tok].state = ACKED

LegalTransitions ==
    { <<ACTIVE, UNACKED>>, <<ACTIVE, SENT_WITHOUT_ACK>>,
      <<UNACKED, ACKED>>, <<UNACKED, SENT_WITHOUT_ACK>>,
      <<ACTIVE, ABORTED>>, <<UNACKED, ABORTED>>,
      <<ABORTED, ACTIVE>>, <<SENT_WITHOUT_ACK, ACTIVE>> }

\* C4: a token is created Active, its state is always one of the five
\* QueueState values, and every change of its state is one of the eight
\* legal transitions.
C4_LegalTransitions ==
    [][\A t \in DOMAIN tokens' :
          /\ tokens'[t].state \in QueueState
          /\ t \notin DOMAIN tokens => tokens'[t].state = ACTIVE
          /\ (t \in DOMAIN tokens /\ tokens'[t].state # tokens[t].state) =>
                 <<tokens[t].state, tokens'[t].state>> \in LegalTransitions]_vars

C4_Witness ==
    /\ call.op = "abort"
    /\ call.pre = UNACKED
    /\ tokens[call.tok].state = ABORTED
    /\ \E t \in DOMAIN tokens : tokens[t].state = ACKED

\* C5: abort() (resend()) on a token built without the abort (resend)
\* capability raises, and a call that raised left the token's state as it
\* was.
C5_UnsupportedOperation ==
    /\ (call.op = "abort" /\ ~is_callable(tokens[call.tok].abort_impl)) =>
           call.raised = "NotImplementedError"
    /\ (call.op = "resend" /\ ~is_callable(tokens[call.tok].resend_impl)) =>
           call.raised = "NotImplementedError"
    /\ call.raised # None => tokens[call.tok].state = call.pre

C5_Witness ==
    /\ call.op = "abort"
    /\ call.raised = "NotImplementedError"
    /\ call.pre = UNACKED
    /\ tokens[call.tok].state = UNACKED
    /\ call.tok \in SeqRange(unacked_queue)

\* =================================================================
\* Properties of make_reply and validate (specification SpecStanza)
\* =================================================================
MakeReplyOps == {"Message.make_reply", "Presence.make_reply", "IQ.make_reply"}

\* the call is one the operation accepts: a Presence reply needs a type
\* that is absent or a presence type, an IQ reply a request
ValidReplyCall(s, op, arg) ==
    CASE op = "Message.make_reply" -> TRUE
      [] op = "Presence.make_reply" ->
            LET t == Or(arg, get_type(s)) IN
            t = Nothing \/ The(t) \in Presence_VALID_TYPES
      [] op = "IQ.make_reply" -> get_type(s) \in {Some("set"), Some("get")}

ErrorChildren(el) ==
    {i \in 1..Len(el.children) : el.children[i].tag = Error_TAG}

NonErrorChildren(el) ==
    {i \in 1..Len(el.children) : el.children[i].tag # Error_TAG}

\* C6: make_reply on a Message, a Presence or an IQ request returns a new
\* stanza of the same kind whose from is the original's to, whose to is the
\* original's from (absent stays absent) and whose id is the original's id.
C6_MakeReplySwapsAddresses ==
    [][(result'.op \in MakeReplyOps
          /\ ValidReplyCall(stanza, result'.op, result'.arg)) =>
          /\ result'.raised = None
          /\ result'.ret # Nothing
          /\ LET r == The(result'.ret) IN
             /\ r.cls = stanza.cls
             /\ r.tag = stanza.tag
             /\ r.nid # stanza.nid
             /\ ~ElementContains(stanza', r)
             /\ get_from(r) = get_to(stanza)
             /\ get_to(r) = get_from(stanza)
             /\ get_id(r) = get_id(stanza)]_vars

C6_Witness ==
    /\ result.op = "Presence.make_reply"
    /\ result.raised = None
    /\ get_from(stanza) = Nothing
    /\ get_to(stanza) = Some(<<"b", "y.example", "r">>)
    /\ get_id(stanza) = Some("x1")
    /\ get_from(The(result.ret)) = Some(<<"b", "y.example", "r">>)
    /\ get_to(The(result.ret)) = Nothing
    /\ get_id(The(result.ret)) = Some("x1")

\* C7: IQ.make_reply on an IQ whose type is not set or get raises, for
\* error=True and error=False alike, returns nothing and leaves the IQ's
\* attributes and children as they were.
C7_MakeReplyInvalidState ==
    [][(result'.op = "IQ.make_reply"
          /\ get_type(stanza) \notin {Some("set"), Some("get")}) =>
          /\ result'.raised = "ValueError"
          /\ result'.ret = Nothing
          /\ stanza' = stanza]_vars

C7_Witness ==
    /\ result.op = "IQ.make_reply"
    /\ result.arg = Some(FALSE)
    /\ get_type(stanza) = Some("result")
    /\ result.raised = "ValueError"
    /\ result.ret = Nothing
    /\ Len(stanza.children) > 0

\* C8: for an IQ of type set or get, make_reply(error=True) returns an IQ
\* of type error with exactly one Error child, whose condition is
\* undefined-condition, and make_reply(error=False) returns an IQ of type
\* result without any child.
C8_MakeReplyErrorOrResult ==
    [][(result'.op = "IQ.make_reply"
          /\ get_type(stanza) \in {Some("set"), Some("get")}) =>
          /\ result'.raised = None
          /\ result'.ret # Nothing
          /\ LET r == The(result'.ret) IN
             IF result'.arg = Some(TRUE)
             THEN /\ get_type(r) = Some("error")
                  /\ Cardinality(ErrorChildren(r)) = 1
                  /\ \A i \in ErrorChildren(r) :
                        /\ r.children[i].cls = "Error"
                        /\ Error_condition(r.children[i])
                               = Some("undefined-condition")
             ELSE /\ get_type(r) = Some("result")
                  /\ r.children = <<>>]_vars

C8_Witness ==
    /\ result.op = "IQ.make_reply"
    /\ result.arg = Some(TRUE)
    /\ get_type(stanza) = Some("get")
    /\ result.raised = None
    /\ get_type(The(result.ret)) = Some("error")
    /\ Cardinality(ErrorChildren(The(result.ret))) = 1

\* C9: for an IQ of type set or get, validate() succeeds if and only if
\* the IQ has exactly one non-error child.
C9_ValidateExactlyOneData ==
    (result.op = "IQ.validate"
       /\ get_type(stanza) \in {Some("set"), Some("get")}) =>
        (result.raised = None <=> Cardinality(NonErrorChildren(stanza)) = 1)

\* C10: for an IQ of type error, validate() succeeds if and only if the
\* IQ has exactly one error child.
C10_ValidateExactlyOneError ==
    (result.op = "IQ.validate" /\ get_type(stanza) = Some("error")) =>
        (result.raised = None <=> Cardinality(ErrorChildren(stanza)) = 1)

\* =================================================================
\* Specification SpecError: the condition accessor and validate()
\* applied to Error elements as they are constructed or parsed
\* =================================================================
MaxErrorChildren == 3

ErrorChildKinds ==
    {"undefined-condition", "bad-request", "no-such-condition", "text", "appdef"}
ConditionArgs == {"undefined-condition", "bad-request", "gone", "no-such-condition"}

Error_APPDEF_TAG == <<"urn:example:appdef", "detail">>

\* the i-th child of an input Error
InputErrorChild(kind, i) ==
    IF kind = "text"
    THEN [makeelement("Element", i + 1, Error_TEXT_ELEMENT) EXCEPT !.text = "hello"]
    ELSE IF kind = "appdef"
    THEN makeelement("Element", i + 1, Error_APPDEF_TAG)
    ELSE makeelement("Element", i + 1, <<ns_stanzas, kind>>)

InputErrors ==
    UNION { { [makeelement("Error", 0, Error_TAG) EXCEPT
                 !.children = [i \in 1..n |-> InputErrorChild(ks[i], i)]] :
              ks \in [1..n -> ErrorChildKinds] }
            : n \in 0..MaxErrorChildren }

InitError ==
    /\ tokens = <<>>
    /\ active_queue = <<>>
    /\ unacked_queue = <<>>
    /\ call = NoCall
    /\ stanza \in InputErrors \cup {Error_init(0)}
    /\ result = NoResult

DoErrorSetCondition(value) ==
    /\ stanza.cls = "Error"
    /\ LET r == Error_set_condition(stanza, value) IN
       /\ stanza' = r.el
       /\ result' = [op |-> "Error.condition=", arg |-> Some(value),
                     raised |-> r.raised, ret |-> Nothing]
    /\ UNCHANGED token_vars

\* C11: assigning Error.condition a value outside the defined-condition
\* vocabulary raises, and leaves the Error's children, and so its condition
\* child and condition value, as they were.
C11_InvalidConditionRejected ==
    [][(result'.op = "Error.condition="
          /\ The(result'.arg) \notin Error_VALID_CONDITIONS) =>
          /\ result'.raised = "ValueError"
          /\ stanza'.children = stanza.children
          /\ Error_condition(stanza') = Error_condition(stanza)]_vars

C11_Witness ==
    /\ result.op = "Error.condition="
    /\ result.arg = Some("no-such-condition")
    /\ result.raised = "ValueError"
    /\ Error_condition(stanza) = Some("gone")

\* faulty variant: one next() too few
iterator_has_more_than_off_by_one(iterable, n_elements) ==
    Cardinality(iterable) >= n_elements

\* iterator_has_more_than: the iterables handed in are generators and child
\* iterators, which have no len(); next() is called n_elements + 1 times
iterator_has_more_than(iterable, n_elements) ==
    Cardinality(iterable) >= n_elements + 1

Error_NON_APPDEF_ELEMENTS == Error_VALID_CONDITION_ELEMENTS \cup {Error_TEXT_ELEMENT}

\* indices of the children _iter_text_elements yields
Error_iter_text_elements(self) ==
    { i \in 1..Len(self.children) : self.children[i].tag = Error_TEXT_ELEMENT }

\* indices of the children _iter_appdef_elements yields
Error_iter_appdef_elements(self) ==
    { i \in 1..Len(self.children) :
        self.children[i].tag \notin Error_NON_APPDEF_ELEMENTS }

\* Error.validate: returns [raised, msg, el]
Error_validate(self) ==
    LET self1 == IF Error_condition(self) = Nothing
                 THEN Error_set_condition(self, "undefined-condition").el
                 ELSE self
    IN IF iterator_has_more_than(Error_iter_condition_elements(self1), 1)
       THEN [raised |-> "ValueError", msg |-> Some("multiple conditions"),
             el |-> self1]
       ELSE IF iterator_has_more_than(Error_iter_text_elements(self1), 1)
       THEN [raised |-> "ValueError", msg |-> Some("multiple texts"),
             el |-> self1]
       ELSE IF iterator_has_more_than(Error_iter_appdef_elements(self1), 1)
       THEN [raised |-> "ValueError",
             msg |-> Some("multiple application defined conditions"),
             el |-> self1]
       ELSE [raised |-> None, msg |-> Nothing, el |-> self1]

DoErrorValidate ==
    /\ stanza.cls = "Error"
    /\ LET r == Error_validate(stanza) IN
       /\ stanza' = r.el
       /\ result' = [op |-> "Error.validate", arg |-> Nothing,
                     raised |-> r.raised, ret |-> r.msg]
    /\ UNCHANGED token_vars

NextError ==
    \/ \E value \in ConditionArgs : DoErrorSetCondition(value)
    \/ DoErrorValidate

SpecError == InitError /\ [][NextError]_vars

\* the children of el whose tag satisfies the test
ConditionChildren(el) ==
    {i \in 1..Len(el.children) :
        /\ el.children[i].tag[1] = ns_stanzas
        /\ el.children[i].tag[2] \in Error_VALID_CONDITIONS}

TextChildren(el) ==
    {i \in 1..Len(el.children) : el.children[i].tag = <<ns_stanzas, "text">>}

AppdefChildren(el) ==
    (1..Len(el.children)) \ (ConditionChildren(el) \cup TextChildren(el))

\* C12: Error.validate() raises exactly when the Error has more than one
\* defined-condition child, more than one text child or more than one
\* application-defined-condition child; an Error without a condition child
\* is not rejected for that, but gets an undefined-condition child.
C12_ErrorValidate ==
    [][result'.op = "Error.validate" =>
          /\ result'.raised \in {None, "ValueError"}
          /\ result'.raised = "ValueError" <=>
                 \/ Cardinality(ConditionChildren(stanza)) > 1
                 \/ Cardinality(TextChildren(stanza)) > 1
                 \/ Cardinality(AppdefChildren(stanza)) > 1
          /\ IF ConditionChildren(stanza) = {}
             THEN /\ Len(stanza'.children) = Len(stanza.children) + 1
                  /\ stanza'.children[1].tag = <<ns_stanzas, "undefined-condition">>
                  /\ Tail(stanza'.children) = stanza.children
             ELSE stanza' = stanza]_vars

C12_Witness ==
    /\ result.op = "Error.validate"
    /\ result.raised = "ValueError"
    /\ result.ret = Some("multiple application defined conditions")
    /\ Len(stanza.children) = 3
    /\ stanza.children[1].nid = 1
    /\ stanza.children[1].tag = <<ns_stanzas, "undefined-condition">>

\* =================================================================
\* ChildrenSetProxy, TransformedChildrenSetProxy
\* =================================================================
NumNodes == 3

Proxy_node_TAG == <<ns_payload, "items">>
Proxy_selector == <<ns_payload, "item">>
Proxy_other_TAG == <<ns_payload, "other">>

\* the nodes handed to the view: nodes 1 and 2 match the selector and carry
\* the same text, every third node has another tag
PoolNode(i) ==
    [makeelement("Element", i,
                 IF i % 3 = 0 THEN Proxy_other_TAG ELSE Proxy_selector)
       EXCEPT !.text = IF i <= 2 THEN "a" ELSE "b"]

ProxyKeys == {"a", "b"}

\* self._node.append(node): a node that is a child already is moved to the end
ProxyAppend(el, node) ==
    ElementAppend(IF ElementContains(el, node) THEN ElementRemove(el, node).el
                  ELSE el,
                  node)

\* indices of the children _iter_nodes yields
ChildrenSetProxy_iter_nodes(node, selector) ==
    {i \in 1..Len(node.children) : node.children[i].tag = selector}

\* ChildrenSetProxy.__contains__
ChildrenSetProxy_contains(node, selector, other_node) ==
    other_node.tag = selector /\ ElementContains(node, other_node)

\* faulty variant: the membership test is inverted
ChildrenSetProxy_add_inverted(node, selector, n) ==
    IF ChildrenSetProxy_contains(node, selector, n)
    THEN ProxyAppend(node, n)
    ELSE node

\* ChildrenSetProxy.add: the node after the call
ChildrenSetProxy_add(node, selector, n) ==
    IF ChildrenSetProxy_contains(node, selector, n)
    THEN node
    ELSE ProxyAppend(node, n)

\* ChildrenSetProxy.remove: returns [raised, el]
ChildrenSetProxy_remove(node, n) ==
    LET r == ElementRemove(node, n) IN
    IF r.raised = "ValueError"
    THEN [raised |-> "KeyError", el |-> node]
    ELSE [raised |-> None, el |-> r.el]

\* a == b of Python for the values a view handles: a domain value [str]
\* and an element [node] are never equal
PyEq(a, b) == DOMAIN a = DOMAIN b /\ a = b

\* the projection handed to the view as map_func: the element's text
map_func(el) == [str |-> el.text]

\* the constructor handed to the view as constructor_func: appends a new
\* element with the selector's tag whose text is the value
constructor_func(node, selector, key) ==
    ElementAppend(node,
        [makeelement("Element", NewNid(node) + NumNodes, selector)
           EXCEPT !.text = key.str])

\* TransformedChildrenSetProxy.__contains__: returns [raised, ret]; any()
\* calls self._test_func, an attribute the class never sets, for the first
\* node of the view
TransformedChildrenSetProxy_contains(node, selector, key) ==
    IF ChildrenSetProxy_iter_nodes(node, selector) = {}
    THEN [raised |-> None, ret |-> FALSE]
    ELSE [raised |-> "AttributeError", ret |-> FALSE]

\* TransformedChildrenSetProxy.add: returns [raised, el]
TransformedChildrenSetProxy_add(node, selector, key) ==
    LET c == TransformedChildrenSetProxy_contains(node, selector, key) IN
    IF c.raised # None THEN [raised |-> c.raised, el |-> node]
    ELSE IF c.ret THEN [raised |-> None, el |-> node]
    ELSE [raised |-> None, el |-> constructor_func(node, selector, key)]

RECURSIVE TransformedChildrenSetProxy_remove(_, _, _)
\* TransformedChildrenSetProxy.remove: returns [raised, el]; self.remove(node)
\* in its loop is this method again, with the node as the key
TransformedChildrenSetProxy_remove(node, selector, key) ==
    LET S == {i \in ChildrenSetProxy_iter_nodes(node, selector) :
                PyEq(map_func(node.children[i]), key)} IN
    IF S = {} THEN [raised |-> "KeyError", el |-> node]
    ELSE TransformedChildrenSetProxy_remove(
             node, selector, [node |-> node.children[MinOf(S)]])

\* -----------------------------------------------------------------
\* Specification SpecProxy: both views over one node
\* -----------------------------------------------------------------
InitProxy ==
    /\ tokens = <<>>
    /\ active_queue = <<>>
    /\ unacked_queue = <<>>
    /\ call = NoCall
    /\ stanza = makeelement("Element", 0, Proxy_node_TAG)
    /\ result = NoResult

\* the nodes a caller can hand to the base view
ProxyArgs == {PoolNode(i) : i \in 1..NumNodes} \cup SeqRange(stanza.children)

DoProxyAdd(n) ==
    /\ stanza.tag = Proxy_node_TAG
    /\ stanza' = ChildrenSetProxy_add(stanza, Proxy_selector, n)
    /\ result' = [op |-> "ChildrenSetProxy.add", arg |-> Some(n),
                  raised |-> None, ret |-> Nothing, pre |-> stanza.children]
    /\ UNCHANGED token_vars

DoProxyRemove(n) ==
    /\ stanza.tag = Proxy_node_TAG
    /\ LET r == ChildrenSetProxy_remove(stanza, n) IN
       /\ stanza' = r.el
       /\ result' = [op |-> "ChildrenSetProxy.remove", arg |-> Some(n),
                     raised |-> r.raised, ret |-> Nothing,
                     pre |-> stanza.children]
    /\ UNCHANGED token_vars

DoTransformedAdd(key) ==
    /\ stanza.tag = Proxy_node_TAG
    /\ LET r == TransformedChildrenSetProxy_add(stanza, Proxy_selector,
                                                [str |-> key]) IN
       /\ stanza' = r.el
       /\ result' = [op |-> "TransformedChildrenSetProxy.add",
                     arg |-> Some(key), raised |-> r.raised, ret |-> Nothing,
                     pre |-> stanza.children]
    /\ UNCHANGED token_vars

DoTransformedRemove(key) ==
    /\ stanza.tag = Proxy_node_TAG
    /\ LET r == TransformedChildrenSetProxy_remove(stanza, Proxy_selector,
                                                   [str |-> key]) IN
       /\ stanza' = r.el
       /\ result' = [op |-> "TransformedChildrenSetProxy.remove",
                     arg |-> Some(key), raised |-> r.raised, ret |-> Nothing,
                     pre |-> stanza.children]
    /\ UNCHANGED token_vars

NextProxy ==
    \/ \E n \in ProxyArgs : DoProxyAdd(n)
    \/ \E n \in ProxyArgs : DoProxyRemove(n)
    \/ \E key \in ProxyKeys : DoTransformedAdd(key)
    \/ \E key \in ProxyKeys : DoTransformedRemove(key)

SpecProxy == InitProxy /\ [][NextProxy]_vars

Occurrences(children, n) ==
    {i \in 1..Len(children) : children[i].nid = n.nid}

\* C13: on the base view, add() of a node with the view's tag leaves
\* exactly one occurrence of it among the children, and changes nothing
\* when the node was a child already; remove() of a node that is no child
\* raises and leaves the children as they were.
C13_BaseViewAddRemove ==
    /\ (result.op = "ChildrenSetProxy.add"
          /\ The(result.arg).tag = Proxy_selector) =>
           /\ result.raised = None
           /\ Cardinality(Occurrences(stanza.children, The(result.arg))) = 1
           /\ Occurrences(result.pre, The(result.arg)) # {} =>
                  stanza.children = result.pre
    /\ (result.op = "ChildrenSetProxy.remove"
          /\ Occurrences(result.pre, The(result.arg)) = {}) =>
           /\ result.raised = "KeyError"
           /\ stanza.children = result.pre

C13_Witness ==
    /\ result.op = "ChildrenSetProxy.add"
    /\ The(result.arg).tag = Proxy_selector
    /\ Occurrences(result.pre, The(result.arg)) # {}
    /\ Len(result.pre) >= 2
    /\ Cardinality(Occurrences(stanza.children, The(result.arg))) = 1

\* the children of the view that project to the value
Projecting(children, key) ==
    {i \in 1..Len(children) :
        children[i].tag = Proxy_selector /\ children[i].text = key}

\* C14: on the transformed view, add(value) returns normally; it appends
\* one child projecting to the value when no child of the view projects to
\* an equal value, and changes nothing when one does.
C14_TransformedAdd ==
    result.op = "TransformedChildrenSetProxy.add" =>
        /\ result.raised = None
        /\ IF Projecting(result.pre, The(result.arg)) = {}
           THEN /\ Len(stanza.children) = Len(result.pre) + 1
                /\ SubSeq(stanza.children, 1, Len(result.pre)) = result.pre
                /\ Cardinality(Projecting(stanza.children, The(result.arg))) = 1
           ELSE stanza.children = result.pre

\* the sequence without its i-th element
WithoutIndex(s, i) == SubSeq(s, 1, i - 1) \o SubSeq(s, i + 1, Len(s))

\* C15: on the transformed view, remove(value) removes the first child of
\* the view that projects to the value and returns normally, the other
\* children staying in place; it raises only when no child projects to
\* the value.
C15_TransformedRemove ==
    result.op = "TransformedChildrenSetProxy.remove" =>
        IF Projecting(result.pre, The(result.arg)) = {}
        THEN /\ result.raised = "KeyError"
             /\ stanza.children = result.pre
        ELSE /\ result.raised = None
             /\ stanza.children =
                    WithoutIndex(result.pre,
                        MinOf(Projecting(result.pre, The(result.arg))))

\* =================================================================
\* Specification SpecPresence: assignments to and reads of Presence.type
\* =================================================================
InputPresences == {s \in InputStanzas : s.cls = "Presence"}

PresenceTypeArgs ==
    {Nothing, Some("invalid-type"), Some("chat")}
    \cup {Some(t) : t \in Presence_VALID_TYPES}

\* Presence.type = value: returns [raised, el]
Presence_set_type(self, value) ==
    xml_enum_attribute_set(self, "type", Presence_VALID_TYPES, value)

InitPresence ==
    /\ tokens = <<>>
    /\ active_queue = <<>>
    /\ unacked_queue = <<>>
    /\ call = NoCall
    /\ stanza \in InputPresences
    /\ result = NoResult

DoPresenceSetType(value) ==
    /\ stanza.cls = "Presence"
    /\ LET r == Presence_set_type(stanza, value) IN
       /\ stanza' = r.el
       /\ result' = [op |-> "Presence.type=", arg |-> value,
                     raised |-> r.raised, ret |-> Nothing]
    /\ UNCHANGED token_vars

DoPresenceGetType ==
    /\ stanza.cls = "Presence"
    /\ result' = [op |-> "Presence.type", arg |-> Nothing,
                  raised |-> None, ret |-> get_type(stanza)]
    /\ UNCHANGED stanza
    /\ UNCHANGED token_vars

NextPresence ==
    \/ \E value \in PresenceTypeArgs : DoPresenceSetType(value)
    \/ DoPresenceGetType

SpecPresence == InitPresence /\ [][NextPresence]_vars

\* the stored attribute, read off the element
StoredType(el) ==
    IF "type" \in DOMAIN el.attrib THEN {el.attrib["type"]} ELSE {}

\* C16: assigning Presence.type a value outside the five presence types
\* raises and leaves the stored attribute as it was; assigning one of the
\* five stores it, assigning None removes the attribute; a read returns
\* what is stored.
C16_PresenceTypeAssignment ==
    [][/\ result'.op = "Presence.type=" =>
            IF result'.arg = {}
            THEN /\ result'.raised = None
                 /\ StoredType(stanza') = {}
            ELSE IF The(result'.arg) \in {"unavailable", "subscribe", "subscribed",
                                          "unsubscribe", "unsubscribed"}
            THEN /\ result'.raised = None
                 /\ StoredType(stanza') = result'.arg
            ELSE /\ result'.raised = "ValueError"
                 /\ StoredType(stanza') = StoredType(stanza)
                 /\ stanza' = stanza
       /\ result'.op = "Presence.type" =>
            /\ result'.ret = StoredType(stanza)
            /\ stanza' = stanza]_vars

C16_Witness ==
    /\ result.op = "Presence.type="
    /\ result.arg = Some("invalid-type")
    /\ result.raised = "ValueError"
    /\ StoredType(stanza) = Some("unsubscribed")

\* =================================================================
\* Error.text and specification SpecErrorText: the text accessor applied
\* to well-formed Errors
\* =================================================================
\* the identity of a new child of self: one no child carries (self.nid + 1
\* is the condition element the condition setter makes)
NewChildNid(self) ==
    MinOf({n \in (self.nid + 2)..(self.nid + Len(self.children) + 2) :
             \A i \in 1..Len(self.children) : self.children[i].nid # n})

\* Error._find_text_element: the position of the element, 0 for None
Error_find_text_element(self) ==
    LET S == Error_iter_text_elements(self) IN
    IF S = {} THEN 0
    ELSE IF self.children[MinOf(S)].text = None THEN 0
    ELSE MinOf(S)

\* Error._find_or_make_text_element: returns [el, at], the Error and the
\* position of the text element in it
Error_find_or_make_text_element(self) ==
    LET at == Error_find_text_element(self) IN
    IF at = 0
    THEN [el |-> ElementInsert(self, 1,
                     makeelement("Element", NewChildNid(self), Error_TEXT_ELEMENT)),
          at |-> (IF Len(self.children) < 1 THEN Len(self.children) ELSE 1) + 1]
    ELSE [el |-> self, at |-> at]

\* Error.text (getter)
Error_text(self) ==
    LET at == Error_find_text_element(self) IN
    IF at = 0 THEN Nothing ELSE Some(self.children[at].text)

\* Error.text (setter): the Error after the assignment
Error_set_text(self, value) ==
    LET r == Error_find_or_make_text_element(self) IN
    [r.el EXCEPT !.children[r.at].text =
                     IF value = Nothing THEN None ELSE The(value)]

\* Error.text (deleter): the Error after the deletion
Error_del_text(self) ==
    LET el == ElementFind(self, Error_TEXT_ELEMENT) IN
    IF el # Nothing THEN ElementRemove(self, The(el)).el ELSE self

TextArgs == {Nothing, Some("a"), Some("b")}

\* the Errors an application starts from: newly constructed, or parsed and
\* accepted by validate()
WellFormedErrors ==
    {e \in InputErrors \cup {Error_init(0)} : Error_validate(e).raised = None}

InitErrorText ==
    /\ tokens = <<>>
    /\ active_queue = <<>>
    /\ unacked_queue = <<>>
    /\ call = NoCall
    /\ stanza \in WellFormedErrors
    /\ result = NoResult

DoErrorSetText(value) ==
    /\ stanza.cls = "Error"
    /\ Len(stanza.children) <= MaxErrorChildren
    /\ stanza' = Error_set_text(stanza, value)
    /\ result' = [op |-> "Error.text=", arg |-> value,
                  raised |-> None, ret |-> Nothing]
    /\ UNCHANGED token_vars

DoErrorDelText ==
    /\ stanza.cls = "Error"
    /\ stanza' = Error_del_text(stanza)
    /\ result' = [op |-> "del Error.text", arg |-> Nothing,
                  raised |-> None, ret |-> Nothing]
    /\ UNCHANGED token_vars

DoErrorGetText ==
    /\ stanza.cls = "Error"
    /\ result' = [op |-> "Error.text", arg |-> Nothing,
                  raised |-> None, ret |-> Error_text(stanza)]
    /\ UNCHANGED stanza
    /\ UNCHANGED token_vars

NextErrorText ==
    \/ \E value \in TextArgs : DoErrorSetText(value)
    \/ DoErrorDelText
    \/ DoErrorGetText
    \/ DoErrorValidate

SpecErrorText == InitErrorText /\ [][NextErrorText]_vars

\* C17: an Error modified only through its text accessor has at most one
\* text child, and validate() never rejects it for multiple texts.
C17_AtMostOneText ==
    /\ Cardinality(TextChildren(stanza)) <= 1
    /\ result.op = "Error.validate" => result.ret # Some("multiple texts")

====
